---------------------------- MODULE Spec2Model ----------------------------
(***************************************************************************)
(* The streaming training page (src/unnamed/part_001, TrainingPage):       *)
(* onSubmit resets the page state and starts startStreamingRun, which      *)
(* fetches /api/training/run, reads the body chunk by chunk, cuts the      *)
(* accumulated text at "\n\n", parses every "data:" record as JSON and     *)
(* hands the parsed event to processEvent, which updates the page state.   *)
(*                                                                         *)
(* Text is a sequence of atoms: the line feed, the field prefix "data:",   *)
(* a comment line, and one atom per JSON payload.  A chunk boundary can    *)
(* fall between any two atoms, in particular between the two line feeds    *)
(* of a record boundary.                                                   *)
(***************************************************************************)
EXTENDS Integers, Sequences, FiniteSets, TLC

(* ------------------------------ bounds --------------------------------- *)
MaxRuns == 2        \* submissions (each one starts a driver)
MaxFrames == 3      \* frames the producer writes, over all streams
MaxChars == 5       \* atoms the raw producer writes (DecSpec)
MaxTotal == 40      \* largest progressTotal and progressCompleted drawn (PercentSpec)

Runs == 1..MaxRuns

(* ------------------------------ values --------------------------------- *)
NULL == "null"
NL == "\n"
DATA == "data:"
COMMENT == ": keep-alive"
BAD == "{bad json"

\* TrainingEvent, one payload atom per event the producer writes.
EventOf ==
  [ start          |-> [type |-> "start", models |-> <<"random_forest">>, total_folds |-> 1],
    start0         |-> [type |-> "start", models |-> <<>>, total_folds |-> 3],
    model_start    |-> [type |-> "model_start", model |-> "random_forest", total_folds |-> 1],
    model_skipped  |-> [type |-> "model_skipped", model |-> "random_forest", reason |-> "insufficient data"],
    fold           |-> [type |-> "fold", model |-> "random_forest", fold |-> 1, total_folds |-> 1],
    model_complete |-> [type |-> "model_complete", model |-> "random_forest"],
    complete       |-> [type |-> "complete", results |-> "results"],
    error          |-> [type |-> "error", message |-> "model timed out"] ]

EventNames == DOMAIN EventOf

\* Payloads that JSON.parse accepts and that are no TrainingEvent: an unknown
\* type, and a fold and a start that lack their fields.
MalformedOf ==
  [ unknown    |-> [type |-> "heartbeat"],
    fold_bare  |-> [type |-> "fold"],
    start_bare |-> [type |-> "start"] ]

MalformedNames == DOMAIN MalformedOf

\* The events of a run of two models with three folds each, the second model
\* skipped.
ScenarioOf ==
  [ a_start       |-> [type |-> "start", models |-> <<"random_forest", "xgboost">>, total_folds |-> 3],
    a_model_rf    |-> [type |-> "model_start", model |-> "random_forest", total_folds |-> 3],
    a_fold_1      |-> [type |-> "fold", model |-> "random_forest", fold |-> 1, total_folds |-> 3],
    a_fold_2      |-> [type |-> "fold", model |-> "random_forest", fold |-> 2, total_folds |-> 3],
    a_fold_3      |-> [type |-> "fold", model |-> "random_forest", fold |-> 3, total_folds |-> 3],
    a_complete_rf |-> [type |-> "model_complete", model |-> "random_forest"],
    a_model_xgb   |-> [type |-> "model_start", model |-> "xgboost", total_folds |-> 3],
    a_skipped_xgb |-> [type |-> "model_skipped", model |-> "xgboost", reason |-> "insufficient data"],
    a_complete    |-> [type |-> "complete", results |-> "results"] ]

ScenarioA ==
  <<"a_start", "a_model_rf", "a_fold_1", "a_fold_2", "a_fold_3", "a_complete_rf",
    "a_model_xgb", "a_skipped_xgb", "a_complete">>

\* What JSON.parse returns for a payload atom ("as TrainingEvent" checks nothing).
JsonOf == EventOf @@ MalformedOf @@ ScenarioOf

JsonNames == DOMAIN JsonOf

Payloads == EventNames \cup {BAD}

VARIABLES
  instrumentToken,    \* useState("256265")
  isRunning,          \* useState(false)
  statusMessage,      \* useState<string | null>(null): the parts of the text, <<>> for null
  errorMessage,       \* useState<string | null>(null)
  progressTotal,      \* useState(0)
  progressCompleted,  \* useState(0)
  currentModel,       \* useState<string | null>(null)
  foldEvents,         \* useState<TrainingEvent[]>([]): the names of the events
  results,            \* useState<TrainingRunResponse | null>(null)
  nruns,              \* calls of startStreamingRun so far; run nruns is the latest
  pc,                 \* per run: "none", "fetch", "read", "done", "failed"
  buffer,             \* per run: let buffer = ""
  wire,               \* per run: text written by the producer and not yet read
  received,           \* per run: all text read so far (history)
  emitted,            \* per run: all records cut so far (history)
  cuts,               \* per run: the lengths of received at which a chunk ended (history)
  sent                \* frames / atoms written so far

page == <<isRunning, statusMessage, errorMessage, progressTotal, progressCompleted,
          currentModel, foldEvents, results>>
vars == <<instrumentToken, isRunning, statusMessage, errorMessage, progressTotal,
          progressCompleted, currentModel, foldEvents, results, nruns, pc, buffer,
          wire, received, emitted, cuts, sent>>
history == <<received, emitted, cuts>>

\* The page state as one value, for the operators that compute on it.
State ==
  [ isRunning |-> isRunning, statusMessage |-> statusMessage, errorMessage |-> errorMessage,
    progressTotal |-> progressTotal, progressCompleted |-> progressCompleted,
    currentModel |-> currentModel, foldEvents |-> foldEvents, results |-> results ]

SetState(s) ==
  /\ isRunning' = s.isRunning
  /\ statusMessage' = s.statusMessage
  /\ errorMessage' = s.errorMessage
  /\ progressTotal' = s.progressTotal
  /\ progressCompleted' = s.progressCompleted
  /\ currentModel' = s.currentModel
  /\ foldEvents' = s.foldEvents
  /\ results' = s.results

(* ---------------------------- processEvent ----------------------------- *)
\* event.model.replace("_", " ")
ReplaceUnderscore(m) == IF m = "random_forest" THEN "random forest" ELSE m

\* A start that takes total_folds alone as the total.
caseStartIgnoresModels(s, event) ==
  [s EXCEPT !.statusMessage = <<"Initializing models...">>,
            !.progressTotal = event.total_folds,
            !.progressCompleted = 0]

\* case "start"; event.models.length throws when models is missing, after
\* setStatusMessage has run (the throw is caught by the read loop)
caseStart(s, event) ==
  IF "models" \in DOMAIN event
    THEN [s EXCEPT !.statusMessage = <<"Initializing models...">>,
                   !.progressTotal = event.total_folds * Len(event.models),
                   !.progressCompleted = 0]
    ELSE [s EXCEPT !.statusMessage = <<"Initializing models...">>]

\* A model_start that also restarts the count of completed folds.
caseModelStartResets(s, event) ==
  [s EXCEPT !.currentModel = event.model,
            !.progressCompleted = 0,
            !.statusMessage = <<"Running ", ReplaceUnderscore(event.model), "...">>]

\* A model_start that is also put in the log.
caseModelStartLogs(s, event) ==
  [s EXCEPT !.currentModel = event.model,
            !.foldEvents = Append(@, event.type),
            !.statusMessage = <<"Running ", ReplaceUnderscore(event.model), "...">>]

\* case "model_start"
caseModelStart(s, event) ==
  [s EXCEPT !.currentModel = event.model,
            !.statusMessage = <<"Running ", ReplaceUnderscore(event.model), "...">>]

\* A skipped model counted as a completed unit.
caseModelSkippedCounts(s, name) ==
  [s EXCEPT !.foldEvents = Append(@, name), !.progressCompleted = @ + 1]

\* case "model_skipped"
caseModelSkipped(s, name) ==
  [s EXCEPT !.foldEvents = Append(@, name)]

\* A fold that is ignored while no total is known.
caseFoldIgnoredBeforeStart(s, name, event) ==
  IF s.progressTotal = 0
    THEN s
    ELSE [s EXCEPT !.foldEvents = Append(@, name),
                   !.progressCompleted = @ + 1,
                   !.statusMessage = <<"Model ", ReplaceUnderscore(event.model), " fold ",
                                       ToString(event.fold), "/", ToString(event.total_folds)>>]

\* A fold that takes the fold number of the event as the count.
caseFoldCountsFoldNumber(s, name, event) ==
  IF {"model", "fold"} \subseteq DOMAIN event
    THEN [s EXCEPT !.foldEvents = Append(@, name),
                   !.progressCompleted = event.fold,
                   !.statusMessage = <<"Model ", ReplaceUnderscore(event.model), " fold ",
                                       ToString(event.fold), "/", ToString(event.total_folds)>>]
    ELSE [s EXCEPT !.foldEvents = Append(@, name),
                   !.progressCompleted = @ + 1]

\* case "fold"; event.model.replace and event.data.fold throw when the field
\* is missing, after setFoldEvents and setProgressCompleted have run
caseFold(s, name, event) ==
  IF {"model", "fold"} \subseteq DOMAIN event
    THEN [s EXCEPT !.foldEvents = Append(@, name),
                   !.progressCompleted = @ + 1,
                   !.statusMessage = <<"Model ", ReplaceUnderscore(event.model), " fold ",
                                       ToString(event.fold), "/", ToString(event.total_folds)>>]
    ELSE [s EXCEPT !.foldEvents = Append(@, name),
                   !.progressCompleted = @ + 1]

\* A model_complete that starts the log again.
caseModelCompleteReplacesLog(s, name, event) ==
  [s EXCEPT !.foldEvents = <<name>>,
            !.statusMessage = <<ReplaceUnderscore(event.model), " complete">>]

\* case "model_complete"
caseModelComplete(s, name, event) ==
  [s EXCEPT !.foldEvents = Append(@, name),
            !.statusMessage = <<ReplaceUnderscore(event.model), " complete">>]

\* A complete that also fills the count up to the total.
caseCompleteFillsProgress(s, event) ==
  [s EXCEPT !.statusMessage = <<"Training finished">>,
            !.results = event.results,
            !.progressCompleted = s.progressTotal,
            !.isRunning = FALSE]

\* A complete that empties the log.
caseCompleteClearsLog(s, event) ==
  [s EXCEPT !.statusMessage = <<"Training finished">>,
            !.results = event.results,
            !.foldEvents = <<>>,
            !.isRunning = FALSE]

\* case "complete"
caseComplete(s, event) ==
  [s EXCEPT !.statusMessage = <<"Training finished">>,
            !.results = event.results,
            !.isRunning = FALSE]

\* An error event shown with a fixed text.
caseErrorFixedText(s, event) ==
  [s EXCEPT !.errorMessage = "Training failed",
            !.isRunning = FALSE,
            !.statusMessage = <<>>]

\* case "error"
caseError(s, event) ==
  [s EXCEPT !.errorMessage = event.message,
            !.isRunning = FALSE,
            !.statusMessage = <<>>]

processEvent(s, name) ==
  LET event == JsonOf[name] IN
  CASE event.type = "start" -> caseStart(s, event)
    [] event.type = "model_start" -> caseModelStart(s, event)
    [] event.type = "model_skipped" -> caseModelSkipped(s, name)
    [] event.type = "fold" -> caseFold(s, name, event)
    [] event.type = "model_complete" -> caseModelComplete(s, name, event)
    [] event.type = "complete" -> caseComplete(s, event)
    [] event.type = "error" -> caseError(s, event)
    [] OTHER -> s

\* x / y rounded to the nearest integer, halves up, in exact arithmetic
\* (x >= 0, y > 0)
Round(x, y) == (2 * x + y) \div (2 * y)

(* Numbers of the source are IEEE 754 doubles: a significand of 53 binary    *)
(* digits, every result rounded to the nearest double, ties to even.  A     *)
(* double is kept here as [limbs, shift]: five limbs, the leading digit     *)
(* and four limbs of 13 digits, most significant first; its value is the    *)
(* integer written by limbs in base 2^13, divided by 2^(52 + shift).  All   *)
(* intermediate integers stay below 2^31 for totals below 2^17.             *)
LimbBase == 8192

\* Carries moved up so that every limb but the first is below LimbBase.
RECURSIVE Carried(_)
Carried(limbs) ==
  IF Len(limbs) <= 1 THEN limbs
  ELSE LET low == limbs[Len(limbs)]
           high == SubSeq(limbs, 1, Len(limbs) - 1)
       IN Append(Carried([high EXCEPT ![Len(high)] = @ + (low \div LimbBase)]),
                 low % LimbBase)

\* c * 2^shift for the least shift that makes it at least t  (0 < c <= t)
RECURSIVE LeadShift(_, _, _)
LeadShift(r, t, shift) ==
  IF r >= t THEN [r |-> r, shift |-> shift] ELSE LeadShift(2 * r, t, shift + 1)

\* c / t as a double, for integers 0 < c <= t: long division, 53 digits kept,
\* rounded on the digit after them and on the remainder
fdiv(c, t) ==
  LET lead == LeadShift(c, t, 0)
      v1 == (lead.r - t) * LimbBase
      v2 == (v1 % t) * LimbBase
      v3 == (v2 % t) * LimbBase
      v4 == (v3 % t) * LimbBase
      v5 == (v4 % t) * 2
      last == v4 \div t
      up == (v5 \div t) = 1 /\ ((v5 % t) # 0 \/ (last % 2) = 1)
  IN [limbs |-> Carried(<<1, v1 \div t, v2 \div t, v3 \div t,
                          last + (IF up THEN 1 ELSE 0)>>),
      shift |-> lead.shift]

\* x * 100 as a double: the product has 59 or 60 digits, of which the lowest
\* 6 or 7 are rounded away
fmul100(x) ==
  LET prod == Carried([i \in 1..5 |-> 100 * x.limbs[i]])
      drop == IF prod[1] < 128 THEN 64 ELSE 128
      low == prod[5] % drop
      half == drop \div 2
      up == (low \div half) = 1 /\ ((low % half) # 0 \/ ((prod[5] \div drop) % 2) = 1)
  IN [limbs |-> Carried([prod EXCEPT ![5] = @ - low + (IF up THEN drop ELSE 0)]),
      shift |-> x.shift]

RECURSIVE Pow2(_)
Pow2(e) == IF e = 0 THEN 1 ELSE 2 * Pow2(e - 1)

\* Math.round(x) for a double x = fmul100(q), 0 < q <= 1: the integer part,
\* plus one when the fraction is a half or more
MathRound(x) ==
  LET top == x.limbs[1] IN
  IF x.shift = 0 THEN top + x.limbs[2] \div (LimbBase \div 2)
  ELSE IF x.shift > 8 THEN 0
  ELSE (top \div Pow2(x.shift)) + ((top \div Pow2(x.shift - 1)) % 2)

\* Math.round((c / t) * 100) for integers 0 <= c <= t, t > 0
RoundedPercent(c, t) == IF c = 0 THEN 0 ELSE MathRound(fmul100(fdiv(c, t)))

\* The completed count with no cap.
cappedCompletedNoCap == progressCompleted

cappedCompleted ==
  IF progressTotal > 0
    THEN (IF progressCompleted < progressTotal THEN progressCompleted ELSE progressTotal)
    ELSE progressCompleted

\* The percentage with neither cap.
progressPercentNoCap ==
  IF progressTotal > 0 THEN Round(progressCompleted * 100, progressTotal) ELSE 0

progressPercent ==
  IF progressTotal > 0
    THEN (LET p == RoundedPercent(cappedCompleted, progressTotal) IN IF p < 100 THEN p ELSE 100)
    ELSE 0

(* ------------------------- the record decoder -------------------------- *)
Whitespace == {NL, " "}

\* buffer.indexOf("\n\n"), 1-based; 0 when there is none (-1 in the source)
indexOfBoundary(buf) ==
  LET hits == {i \in 1..(Len(buf) - 1) : buf[i] = NL /\ buf[i + 1] = NL}
  IN IF hits = {} THEN 0 ELSE CHOOSE i \in hits : \A j \in hits : i <= j

RECURSIVE trimStart(_)
trimStart(t) ==
  IF t # <<>> /\ t[1] \in Whitespace THEN trimStart(Tail(t)) ELSE t

RECURSIVE trimEnd(_)
trimEnd(t) ==
  IF t # <<>> /\ t[Len(t)] \in Whitespace THEN trimEnd(SubSeq(t, 1, Len(t) - 1)) ELSE t

\* String.prototype.trim
trim(t) == trimEnd(trimStart(t))

\* A decoder that forgets the text after the last boundary.
RECURSIVE feedDropsTail(_, _)
feedDropsTail(buf, recs) ==
  LET boundary == indexOfBoundary(buf) IN
  IF boundary = 0
    THEN [buffer |-> <<>>, records |-> recs]
    ELSE feedDropsTail(SubSeq(buf, boundary + 2, Len(buf)),
                       Append(recs, trim(SubSeq(buf, 1, boundary - 1))))

\* A decoder that cuts one atom past the boundary.
RECURSIVE feedCutsPastBoundary(_, _)
feedCutsPastBoundary(buf, recs) ==
  LET boundary == indexOfBoundary(buf) IN
  IF boundary = 0
    THEN [buffer |-> buf, records |-> recs]
    ELSE feedCutsPastBoundary(SubSeq(buf, boundary + 3, Len(buf)),
                              Append(recs, trim(SubSeq(buf, 1, boundary - 1))))

\* A decoder that cuts one record for each chunk and no more.
feedCutsOnce(buf, recs) ==
  LET boundary == indexOfBoundary(buf) IN
  IF boundary = 0
    THEN [buffer |-> buf, records |-> recs]
    ELSE [buffer |-> SubSeq(buf, boundary + 2, Len(buf)),
          records |-> Append(recs, trim(SubSeq(buf, 1, boundary - 1)))]

\* The inner loop of the read loop as a function of the text: cut at every
\* boundary, leftmost first; the records cut (trimmed) and the text kept.
RECURSIVE feed(_, _)
feed(buf, recs) ==
  LET boundary == indexOfBoundary(buf) IN
  IF boundary = 0
    THEN [buffer |-> buf, records |-> recs]
    ELSE feed(SubSeq(buf, boundary + 2, Len(buf)),
              Append(recs, trim(SubSeq(buf, 1, boundary - 1))))

\* chunk.startsWith("data:")
startsWithData(chunk) == chunk # <<>> /\ chunk[1] = DATA

\* chunk.replace(/^data:\s*/, "")
payloadOf(chunk) == trimStart(Tail(chunk))

\* JSON.parse(payload) succeeds: one JSON value, white space around it allowed
parses(payload) ==
  LET v == trim(payload) IN Len(v) = 1 /\ v[1] \in JsonNames

\* A record handler whose JSON.parse failure is not caught in the loop.
handleRecordAborts(s, chunk) ==
  IF startsWithData(chunk)
    THEN IF parses(payloadOf(chunk))
           THEN processEvent(s, trim(payloadOf(chunk))[1])
           ELSE [s EXCEPT !.errorMessage = "Unexpected token", !.isRunning = FALSE,
                          !.statusMessage = <<>>]
    ELSE s

\* A record handler that parses the last line of a record of any field.
handleRecordAnyField(s, chunk) ==
  IF chunk # <<>> /\ chunk[Len(chunk)] \in JsonNames
    THEN processEvent(s, chunk[Len(chunk)])
    ELSE s

\* One record of the inner loop: parse and processEvent, or drop.
handleRecord(s, chunk) ==
  IF startsWithData(chunk) /\ parses(payloadOf(chunk))
    THEN processEvent(s, trim(payloadOf(chunk))[1])
    ELSE s

\* An inner loop that handles the records of a chunk last first.
RECURSIVE handleRecordsReversed(_, _)
handleRecordsReversed(s, recs) ==
  IF recs = <<>>
    THEN s
    ELSE handleRecordsReversed(handleRecord(s, recs[Len(recs)]), SubSeq(recs, 1, Len(recs) - 1))

RECURSIVE handleRecords(_, _)
handleRecords(s, recs) ==
  IF recs = <<>> THEN s ELSE handleRecords(handleRecord(s, Head(recs)), Tail(recs))

(* ------------------------------ actions -------------------------------- *)
Init ==
  /\ instrumentToken = "256265"
  /\ isRunning = FALSE
  /\ statusMessage = <<>>
  /\ errorMessage = NULL
  /\ progressTotal = 0
  /\ progressCompleted = 0
  /\ currentModel = NULL
  /\ foldEvents = <<>>
  /\ results = NULL
  /\ nruns = 0
  /\ pc = [d \in Runs |-> "none"]
  /\ buffer = [d \in Runs |-> <<>>]
  /\ wire = [d \in Runs |-> <<>>]
  /\ received = [d \in Runs |-> <<>>]
  /\ emitted = [d \in Runs |-> <<>>]
  /\ cuts = [d \in Runs |-> {}]
  /\ sent = 0

\* The page in the middle of its first run: a start event with a total of
\* progressTotal and then progressCompleted fold events have been folded.
InitPercent ==
  /\ instrumentToken = "256265"
  /\ isRunning = TRUE
  /\ progressTotal \in 0..MaxTotal
  /\ progressCompleted \in 0..MaxTotal
  /\ statusMessage = IF progressCompleted = 0
                       THEN <<"Initializing models...">>
                       ELSE <<"Model ", "random forest", " fold ", "1", "/", "1">>
  /\ errorMessage = NULL
  /\ currentModel = NULL
  /\ foldEvents = [i \in 1..progressCompleted |-> "fold"]
  /\ results = NULL
  /\ nruns = 1
  /\ pc = [d \in Runs |-> IF d = 1 THEN "read" ELSE "none"]
  /\ buffer = [d \in Runs |-> <<>>]
  /\ wire = [d \in Runs |-> <<>>]
  /\ received = [d \in Runs |-> <<>>]
  /\ emitted = [d \in Runs |-> <<>>]
  /\ cuts = [d \in Runs |-> {}]
  /\ sent = 0

\* onChange of the instrument token input
SetInstrumentToken(v) ==
  /\ instrumentToken # v
  /\ instrumentToken' = v
  /\ UNCHANGED <<page, nruns, pc, buffer, wire, history, sent>>

\* A submit button that is never disabled.
SubmitAlwaysEnabled == TRUE

\* The submit button is disabled while isRunning.
SubmitEnabled == ~isRunning

\* A submission that does not look at the instrument token.
onSubmitAnyToken ==
  /\ SubmitEnabled
  /\ nruns < MaxRuns
  /\ isRunning' = TRUE
  /\ statusMessage' = <<"Preparing training run...">>
  /\ errorMessage' = NULL
  /\ progressCompleted' = 0
  /\ progressTotal' = 0
  /\ currentModel' = NULL
  /\ foldEvents' = <<>>
  /\ results' = NULL
  /\ nruns' = nruns + 1
  /\ pc' = [pc EXCEPT ![nruns + 1] = "fetch"]
  /\ UNCHANGED <<instrumentToken, buffer, wire, history, sent>>

\* onSubmit: the reset, and startStreamingRun up to its await of fetch
onSubmit ==
  /\ SubmitEnabled
  /\ IF instrumentToken = ""
       THEN UNCHANGED vars
       ELSE /\ nruns < MaxRuns
            /\ isRunning' = TRUE
            /\ statusMessage' = <<"Preparing training run...">>
            /\ errorMessage' = NULL
            /\ progressCompleted' = 0
            /\ progressTotal' = 0
            /\ currentModel' = NULL
            /\ foldEvents' = <<>>
            /\ results' = NULL
            /\ nruns' = nruns + 1
            /\ pc' = [pc EXCEPT ![nruns + 1] = "fetch"]
            /\ UNCHANGED <<instrumentToken, buffer, wire, history, sent>>

\* A catch that also puts the progress back to 0.
catchResetsProgress(s, message) ==
  [s EXCEPT !.errorMessage = IF message = NULL THEN "Training failed" ELSE message,
            !.isRunning = FALSE, !.statusMessage = <<>>,
            !.progressCompleted = 0, !.progressTotal = 0]

\* .catch of onSubmit: error.message ?? "Training failed"; message is NULL
\* for a rejection whose value has no message
catch(s, message) ==
  [s EXCEPT !.errorMessage = IF message = NULL THEN "Training failed" ELSE message,
            !.isRunning = FALSE, !.statusMessage = <<>>]

\* fetch resolved with response.ok and a body: getReader, buffer = ""
fetchOk(d) ==
  /\ pc[d] = "fetch"
  /\ pc' = [pc EXCEPT ![d] = "read"]
  /\ buffer' = [buffer EXCEPT ![d] = <<>>]
  /\ UNCHANGED <<instrumentToken, page, nruns, wire, history, sent>>

\* `Training request failed (${response.status})`: 500 for a response that is
\* not ok, 204 for a response with no body
requestFailedMessage(status) ==
  IF status = 500 THEN "Training request failed (500)" ELSE "Training request failed (204)"

\* !response.ok || !response.body: throw, caught by onSubmit's catch
fetchFailed(d, status) ==
  /\ pc[d] = "fetch"
  /\ pc' = [pc EXCEPT ![d] = "failed"]
  /\ SetState(catch(State, requestFailedMessage(status)))
  /\ UNCHANGED <<instrumentToken, nruns, buffer, wire, history, sent>>

\* fetch itself rejects (no connection): the error reaches onSubmit's catch
fetchRejected(d) ==
  /\ pc[d] = "fetch"
  /\ pc' = [pc EXCEPT ![d] = "failed"]
  /\ SetState(catch(State, "Failed to fetch"))
  /\ UNCHANGED <<instrumentToken, nruns, buffer, wire, history, sent>>

\* One turn of the read loop with done = false: decode, cut, parse, processEvent.
readChunk(d, k) ==
  /\ pc[d] = "read"
  /\ k \in 1..Len(wire[d])
  /\ LET value == SubSeq(wire[d], 1, k)
         r == feed(buffer[d] \o value, <<>>)
     IN /\ buffer' = [buffer EXCEPT ![d] = r.buffer]
        /\ SetState(handleRecords(State, r.records))
        /\ wire' = [wire EXCEPT ![d] = SubSeq(@, k + 1, Len(@))]
  /\ UNCHANGED <<instrumentToken, nruns, pc, sent>>

\* History of a turn of the read loop: the text decoded and the records cut.
recordTurn(d, k) ==
  LET value == SubSeq(wire[d], 1, k) IN
  /\ received' = [received EXCEPT ![d] = @ \o value]
  /\ emitted' = [emitted EXCEPT ![d] = @ \o feed(buffer[d] \o value, <<>>).records]
  /\ cuts' = [cuts EXCEPT ![d] = @ \cup {Len(received[d]) + k}]

\* An end of stream that leaves isRunning as it is.
endOfStreamKeepsRunning(s) ==
  [s EXCEPT !.statusMessage = IF @ # <<>> THEN Append(@, " (idle)") ELSE <<>>]

\* done = true: leave the loop, setIsRunning(false), status "(idle)"
endOfStream(s) ==
  [s EXCEPT !.isRunning = FALSE,
            !.statusMessage = IF @ # <<>> THEN Append(@, " (idle)") ELSE <<>>]

\* An end of stream that parses what is left in the buffer as a last record.
readDoneFlushes(d) ==
  /\ pc[d] = "read"
  /\ wire[d] = <<>>
  /\ pc' = [pc EXCEPT ![d] = "done"]
  /\ SetState(endOfStream(handleRecord(State, trim(buffer[d]))))
  /\ buffer' = [buffer EXCEPT ![d] = <<>>]
  /\ UNCHANGED <<instrumentToken, nruns, wire, history, sent>>

\* done = true: break, then the code after the loop; buffer is left as it is
readDone(d) ==
  /\ pc[d] = "read"
  /\ wire[d] = <<>>
  /\ pc' = [pc EXCEPT ![d] = "done"]
  /\ SetState(endOfStream(State))
  /\ UNCHANGED <<instrumentToken, nruns, buffer, wire, history, sent>>

\* A read failure after which the request is sent again.
readFailedRetries(d, message) ==
  /\ pc[d] = "read"
  /\ pc' = [pc EXCEPT ![d] = "fetch"]
  /\ SetState(catch(State, message))
  /\ wire' = [wire EXCEPT ![d] = <<>>]
  /\ UNCHANGED <<instrumentToken, nruns, buffer, history, sent>>

\* reader.read() rejects: the error reaches onSubmit's catch
readFailed(d, message) ==
  /\ pc[d] = "read"
  /\ pc' = [pc EXCEPT ![d] = "failed"]
  /\ SetState(catch(State, message))
  /\ wire' = [wire EXCEPT ![d] = <<>>]
  /\ UNCHANGED <<instrumentToken, nruns, buffer, history, sent>>

(* ----------------------------- the producer ---------------------------- *)
\* "data: <json>\n\n", and a comment record
Frames == {<<DATA, j, NL, NL>> : j \in Payloads} \cup {<<COMMENT, NL, NL>>}

\* The training service writes one frame on the open stream of run d.
produce(d, f) ==
  /\ pc[d] = "read"
  /\ sent < MaxFrames
  /\ sent' = sent + 1
  /\ wire' = [wire EXCEPT ![d] = @ \o f]
  /\ UNCHANGED <<instrumentToken, page, nruns, pc, buffer, history>>

\* Frames of a producer that breaks the wire contract: payloads that are no
\* TrainingEvent, a comment, and a record whose first line is another field.
LooseFrames ==
  {<<DATA, j, NL, NL>> : j \in {"fold", BAD} \cup MalformedNames}
    \cup {<<COMMENT, NL, NL>>, <<COMMENT, NL, DATA, "fold", NL, NL>>}

produceLoose(d, f) ==
  /\ pc[d] = "read"
  /\ sent < MaxFrames
  /\ sent' = sent + 1
  /\ wire' = [wire EXCEPT ![d] = @ \o f]
  /\ UNCHANGED <<instrumentToken, page, nruns, pc, buffer, history>>

\* A producer that writes the frames of ScenarioA, one after the other.
produceScenario(d) ==
  /\ pc[d] = "read"
  /\ sent < Len(ScenarioA)
  /\ sent' = sent + 1
  /\ wire' = [wire EXCEPT ![d] = @ \o <<DATA, ScenarioA[sent + 1], NL, NL>>]
  /\ UNCHANGED <<instrumentToken, page, nruns, pc, buffer, history>>

\* Records the service wrote without their blank line: no line terminator
\* at all, or one.
TailFrames ==
  {<<DATA, j>> : j \in {"fold", "complete", "error"}}
    \cup {<<DATA, j, NL>> : j \in {"fold", "complete", "error"}}

produceTail(d, f) ==
  /\ pc[d] = "read"
  /\ sent < MaxFrames
  /\ sent' = sent + 1
  /\ wire' = [wire EXCEPT ![d] = @ \o f]
  /\ UNCHANGED <<instrumentToken, page, nruns, pc, buffer, history>>

\* A producer that writes any text, atom by atom.
Alphabet == {NL, DATA, "fold"}

produceRaw(d, c) ==
  /\ pc[d] = "read"
  /\ sent < MaxChars
  /\ sent' = sent + 1
  /\ wire' = [wire EXCEPT ![d] = Append(@, c)]
  /\ UNCHANGED <<instrumentToken, page, nruns, pc, buffer, history>>

Submit == onSubmit
Edit == \E v \in {"", "256265"} : SetInstrumentToken(v)
FetchOk == \E d \in Runs : fetchOk(d)
FetchFailed == \E d \in Runs : \E status \in {500, 204} : fetchFailed(d, status)
FetchRejected == \E d \in Runs : fetchRejected(d)
\* In Spec the transport delivers whole frames, one or more in a chunk; in
\* DecSpec and SplitSpec a chunk ends anywhere.
FrameEnds(w) == {i \in 1..Len(w) : i = Len(w) \/ (w[i] = NL /\ w[i + 1] # NL)}

ReadChunk ==
  \E d \in Runs : \E k \in FrameEnds(wire[d]) : readChunk(d, k) /\ UNCHANGED <<history>>
ReadSplit ==
  \E d \in Runs : \E k \in 1..Len(wire[d]) : readChunk(d, k) /\ UNCHANGED <<history>>
ReadChunkTraced ==
  \E d \in Runs : \E k \in 1..Len(wire[d]) : readChunk(d, k) /\ recordTurn(d, k)
ReadFrameTraced ==
  \E d \in Runs : \E k \in FrameEnds(wire[d]) : readChunk(d, k) /\ recordTurn(d, k)
ReadDone == \E d \in Runs : readDone(d)
ReadFailed == \E d \in Runs : \E m \in {"network error", NULL} : readFailed(d, m)
Produce == \E d \in Runs : \E f \in Frames : produce(d, f)
ProduceLoose == \E d \in Runs : \E f \in LooseFrames : produceLoose(d, f)
ProduceFold == \E d \in Runs : produce(d, <<DATA, "fold", NL, NL>>)
ProduceScenario == \E d \in Runs : produceScenario(d)
ProduceRaw == \E d \in Runs : \E c \in Alphabet : produceRaw(d, c)
ProduceTail == \E d \in Runs : \E f \in TailFrames : produceTail(d, f)

Next ==
  \/ Submit
  \/ FetchOk
  \/ FetchFailed
  \/ FetchRejected
  \/ ReadChunk
  \/ ReadDone
  \/ ReadFailed
  \/ Produce

Spec == Init /\ [][Next]_vars

\* The steps that end a wait of run d, for the fairness of LiveSpec: the
\* request settles, the stream ends or its read fails.
settles(d) ==
  \/ fetchOk(d)
  \/ \E status \in {500, 204} : fetchFailed(d, status)
  \/ fetchRejected(d)

closes(d) == readDone(d) \/ \E m \in {"network error", NULL} : readFailed(d, m)

\* Some driver's wait ends.
advances == \E d \in Runs : settles(d) \/ closes(d)

\* Every request is answered or fails and every stream ends or fails (what
\* the service and the network owe the page), and the resolved await of fetch
\* or of reader.read() is continued by the event loop: while some driver
\* waits, the request or the stream of some driver comes to its end. Each
\* driver has one request and one stream, so this is as strong here as the
\* fairness of each driver by itself.
Fairness == WF_vars(advances)

\* The page of Spec fed fold and complete events only, under that fairness.
LiveFrames == {<<DATA, j, NL, NL>> : j \in {"fold", "complete"}}

ProduceLive == \E d \in Runs : \E f \in LiveFrames : produce(d, f)

NextLive ==
  \/ Submit
  \/ FetchOk
  \/ FetchFailed
  \/ FetchRejected
  \/ ReadChunk
  \/ ReadDone
  \/ ReadFailed
  \/ ProduceLive

LiveSpec == Init /\ [][NextLive]_vars /\ Fairness

\* The same page fed by a producer of arbitrary text, with the history of
\* what each driver decoded.
NextDec ==
  \/ Submit
  \/ FetchOk
  \/ ReadChunkTraced
  \/ ReadDone
  \/ ProduceRaw

DecSpec == Init /\ [][NextDec]_vars

\* The frames of Spec cut into chunks anywhere.
NextSplit ==
  \/ Submit
  \/ FetchOk
  \/ ReadSplit
  \/ ReadDone
  \/ Produce

SplitSpec == Init /\ [][NextSplit]_vars

\* The page with its form: the instrument token is edited between submissions.
NextForm ==
  \/ Submit
  \/ Edit
  \/ FetchOk
  \/ FetchFailed
  \/ FetchRejected
  \/ ReadChunk
  \/ ReadDone
  \/ ReadFailed
  \/ ProduceLive

FormSpec == Init /\ [][NextForm]_vars

\* The page fed by a producer that breaks the wire contract, whole frames in
\* a chunk, with the history of what each driver decoded.
NextTrace ==
  \/ Submit
  \/ FetchOk
  \/ ReadFrameTraced
  \/ ReadDone
  \/ ProduceLoose

TraceSpec == Init /\ [][NextTrace]_vars

\* The page fed the frames of ScenarioA, cut into chunks anywhere.
NextScen ==
  \/ Submit
  \/ FetchOk
  \/ ReadSplit
  \/ ReadDone
  \/ ProduceScenario

ScenSpec == Init /\ [][NextScen]_vars

\* The page fed fold events and records that lack their blank line.
NextTail ==
  \/ Submit
  \/ FetchOk
  \/ ReadChunk
  \/ ReadDone
  \/ ProduceFold
  \/ ProduceTail

TailSpec == Init /\ [][NextTail]_vars

\* The percentage over all counts: the page from any count of folds out of
\* any total, fed further fold events.
NextPercent ==
  \/ ProduceFold
  \/ ReadChunk
  \/ ReadDone

PercentSpec == InitPercent /\ [][NextPercent]_vars

(* ------------------------------- claims -------------------------------- *)
Terminal == results # NULL \/ errorMessage # NULL

\* Run d takes a turn of its read loop in this step.
ReadStep(d) == pc[d] = "read" /\ pc'[d] = "read" /\ Len(wire'[d]) < Len(wire[d])

\* Run d leaves its read loop at the end of its stream in this step.
DoneStep(d) == pc[d] = "read" /\ pc'[d] = "done"

\* The names of the events that run d folds when it reads k atoms.
FoldedBy(d, k) ==
  LET recs == feed(buffer[d] \o SubSeq(wire[d], 1, k), <<>>).records
      good == SelectSeq(recs, LAMBDA c : startsWithData(c) /\ parses(payloadOf(c)))
  IN [i \in 1..Len(good) |-> trim(payloadOf(good[i]))[1]]

\* C1: once results or errorMessage is set, a turn of the read loop (folding
\* further events) leaves progressCompleted, progressTotal, currentModel,
\* foldEvents, statusMessage, errorMessage and results unchanged.
C1_TerminalAbsorbing ==
  [][\A d \in Runs :
       (ReadStep(d) /\ Terminal) =>
         UNCHANGED <<progressCompleted, progressTotal, currentModel, foldEvents,
                     statusMessage, errorMessage, results>>]_vars

\* C2: results and errorMessage are never both set.
C2_NeverBoth == ~(results # NULL /\ errorMessage # NULL)

\* C3: when a stream ends and neither a complete nor an error event has been
\* folded, errorMessage becomes "stream ended unexpectedly".
C3_EndOfStreamIsError ==
  [][\A d \in Runs :
       (DoneStep(d) /\ ~Terminal) => errorMessage' = "stream ended unexpectedly"]_vars

\* C4: a run whose connection has closed is terminal: when every driver has
\* left its stream (ended or failed), results or errorMessage is set.
C4_ClosedIsTerminal ==
  (nruns > 0 /\ \A d \in 1..nruns : pc[d] \in {"done", "failed"}) => Terminal

\* C5: at most one driver is fetching or reading at any time.
C5_OneDriver == Cardinality({d \in Runs : pc[d] \in {"fetch", "read"}}) <= 1

\* C6: a step of the driver of an earlier run (a turn of its read loop, its
\* end of stream, its failure) leaves the page state of the later run unchanged.
C6_NoStaleUpdate ==
  [][\A d \in Runs :
       (d < nruns /\ pc[d] \in {"fetch", "read"} /\ (pc'[d] # pc[d] \/ wire'[d] # wire[d] \/ buffer'[d] # buffer[d]))
         => UNCHANGED page]_vars

\* C7 as stated: within one run no step lowers progressCompleted.
C7_Monotone == [][nruns' = nruns => progressCompleted' >= progressCompleted]_vars

\* C7 amended: within one run progressCompleted is lowered only by a turn of
\* the read loop that folds a start event; no other event, end of stream or
\* failure lowers it.
C7_LoweredOnlyByStart ==
  [][(nruns' = nruns /\ progressCompleted' < progressCompleted) =>
       \E d \in Runs :
         /\ ReadStep(d)
         /\ LET names == FoldedBy(d, Len(wire[d]) - Len(wire'[d]))
            IN \E i \in 1..Len(names) : JsonOf[names[i]].type = "start"]_vars

\* A fold was counted and a start event folded after it has lowered the count.
C7_Witness ==
  /\ foldEvents # <<>>
  /\ progressCompleted < Len(SelectSeq(foldEvents, LAMBDA n : n = "fold"))
  /\ statusMessage = <<"Initializing models...">>

\* C8 as stated: once a start event has set progressTotal, the stored
\* progressCompleted never exceeds it.
C8_StoredWithinTotal == progressTotal > 0 => progressCompleted <= progressTotal

\* C8 amended: when progressTotal > 0 the derived cappedCompleted never exceeds
\* progressTotal; the stored progressCompleted is not capped.
C8_CappedWithinTotal == progressTotal > 0 => cappedCompleted <= progressTotal

\* More folds than declared have been counted.
C8_Witness == progressTotal > 0 /\ cappedCompleted < progressCompleted

\* C9: progressPercent is within 0..100 in every reachable state.
C9_PercentInRange == progressPercent \in 0..100

\* More folds than declared have been folded after a start: the percentage
\* without its caps would be above 100.
C9_Witness ==
  /\ progressTotal > 0
  /\ Round(progressCompleted * 100, progressTotal) > 100
  /\ progressPercent = 100

\* C10: for every text and every way of cutting it into chunks, the records
\* cut so far are those cut from the whole text read so far fed as one chunk.
C10_ChunkIndependent ==
  \A d \in Runs : emitted[d] = feed(received[d], <<>>).records

\* A chunk ended between the two line feeds of a boundary, and the record
\* before that boundary has been cut.
C10_Witness ==
  \E d \in Runs : \E i \in cuts[d] :
    /\ i < Len(received[d])
    /\ received[d][i] = NL /\ received[d][i + 1] = NL
    /\ i > 1 /\ received[d][i - 1] # NL
    /\ emitted[d] # <<>>

\* The state onSubmit sets before it calls startStreamingRun.
ResetState ==
  [ isRunning         |-> TRUE,
    statusMessage     |-> <<"Preparing training run...">>,
    errorMessage      |-> NULL,
    progressTotal     |-> 0,
    progressCompleted |-> 0,
    currentModel      |-> NULL,
    foldEvents        |-> <<>>,
    results           |-> NULL ]

\* processEvent applied to the named events, first to last.
RECURSIVE FoldAll(_, _)
FoldAll(s, names) ==
  IF names = <<>> THEN s ELSE FoldAll(processEvent(s, Head(names)), Tail(names))

\* The records run d cuts when it reads k atoms.
CutBy(d, k) == feed(buffer[d] \o SubSeq(wire[d], 1, k), <<>>).records

\* The names of the JSON values in a sequence of records.
NamesIn(recs) ==
  LET good == SelectSeq(recs, LAMBDA c : startsWithData(c) /\ parses(payloadOf(c)))
  IN [i \in 1..Len(good) |-> trim(payloadOf(good[i]))[1]]

\* The number of atoms run d reads in this step.
Turn(d) == Len(wire[d]) - Len(wire'[d])

\* C11: a turn of the read loop whose data records all carry a payload that is
\* no valid TrainingEvent (invalid JSON, an unknown type, a fold or start
\* lacking its fields) leaves the whole page state unchanged.
C11_MalformedDropped ==
  [][\A d \in Runs :
       (ReadStep(d) /\ \A i \in 1..Len(NamesIn(CutBy(d, Turn(d)))) :
                         NamesIn(CutBy(d, Turn(d)))[i] \notin EventNames)
         => UNCHANGED page]_vars

\* C12: a turn of the read loop never leaves the loop and never sets
\* errorMessage because of a record that is no valid TrainingEvent: the driver
\* stays in its loop and the page state after the turn is processEvent applied,
\* in order, to every parsable record cut in the turn.
C12_MalformedNeverAborts ==
  [][\A d \in Runs :
       (pc[d] = "read" /\ Len(wire'[d]) < Len(wire[d])) =>
         /\ pc'[d] = "read"
         /\ errorMessage' = errorMessage
         /\ State' = FoldAll(State, NamesIn(CutBy(d, Turn(d))))]_vars

\* A record of invalid JSON was cut, a fold record after it was folded, and the
\* run is still reading with no error.
C12_Witness ==
  /\ nruns = 1 /\ pc[1] = "read" /\ isRunning /\ errorMessage = NULL
  /\ \E i, j \in 1..Len(emitted[1]) :
       i < j /\ emitted[1][i] = <<DATA, BAD>> /\ emitted[1][j] = <<DATA, "fold">>
  /\ foldEvents = <<"fold">> /\ progressCompleted = 1

\* C13: a turn of the read loop that folds one error event in a state with
\* neither results nor errorMessage set makes errorMessage the event's message,
\* clears isRunning and leaves results absent.
C13_ErrorVerbatim ==
  [][\A d \in Runs :
       (ReadStep(d) /\ ~Terminal /\ NamesIn(CutBy(d, Turn(d))) = <<"error">>) =>
         /\ errorMessage' = EventOf["error"].message
         /\ ~isRunning'
         /\ results' = NULL]_vars

\* An error event has been folded: its message is shown, nothing else is.
C13_Witness ==
  /\ errorMessage = "model timed out" /\ results = NULL /\ ~isRunning
  /\ statusMessage = <<>>
  /\ \E d \in Runs : pc[d] = "read"

\* C14: when the request of the latest run fails (response not ok, or no
\* body), errorMessage is "Training request failed (<status>)", isRunning is
\* cleared, and results, progressCompleted and foldEvents are at their reset
\* values.
C14_RequestFailure ==
  [][(nruns > 0 /\ pc[nruns] = "fetch" /\ pc'[nruns] = "failed") =>
       /\ errorMessage' \in {requestFailedMessage(st) : st \in {500, 204}} \cup {"Failed to fetch"}
       /\ ~isRunning'
       /\ results' = NULL /\ progressCompleted' = 0 /\ foldEvents' = <<>>]_vars

\* C15: a turn of the read loop that cuts records none of which begins with
\* data: leaves the page state unchanged and the driver in its loop.
C15_NonDataDiscarded ==
  [][\A d \in Runs :
       (pc[d] = "read" /\ Len(wire'[d]) < Len(wire[d])
          /\ CutBy(d, Turn(d)) # <<>>
          /\ \A i \in 1..Len(CutBy(d, Turn(d))) : ~startsWithData(CutBy(d, Turn(d))[i]))
         => (UNCHANGED page /\ pc'[d] = "read")]_vars

\* A record whose first line is another field was cut and nothing was folded;
\* the data record after it was then folded.
C15_Witness ==
  /\ nruns = 1 /\ pc[1] = "read" /\ errorMessage = NULL
  /\ Len(emitted[1]) = 2
  /\ emitted[1][1] = <<COMMENT, NL, DATA, "fold">>
  /\ emitted[1][2] = <<DATA, "fold">>
  /\ foldEvents = <<"fold">> /\ progressCompleted = 1

\* C16: from the submission of a run until its request is answered (no event
\* of the run can have been folded), the page state is the reset state:
\* progressCompleted = 0, progressTotal = 0, no currentModel, no foldEvents, no
\* errorMessage, no results.
C16_ResetUntilFirstEvent ==
  (nruns > 0 /\ pc[nruns] = "fetch") =>
    /\ progressCompleted = 0 /\ progressTotal = 0 /\ currentModel = NULL
    /\ foldEvents = <<>> /\ errorMessage = NULL /\ results = NULL

\* C17 as stated: a fold event folded before any event of the run has set
\* progressTotal leaves progressCompleted at 0 and foldEvents unchanged.
C17_FoldBeforeStartIgnored ==
  [][\A d \in Runs :
       (ReadStep(d) /\ ~Terminal /\ progressTotal = 0 /\ progressCompleted = 0
          /\ NamesIn(CutBy(d, Turn(d))) = <<"fold">>)
         => (progressCompleted' = 0 /\ foldEvents' = foldEvents)]_vars

\* C17 amended: a fold event folded before any start event is counted like
\* any other fold: progressCompleted becomes 1 and the event is appended to
\* foldEvents; progressTotal stays 0, so the percentage shown stays 0.
C17_FoldBeforeStartCounted ==
  [][\A d \in Runs :
       (ReadStep(d) /\ ~Terminal /\ progressTotal = 0 /\ progressCompleted = 0
          /\ NamesIn(CutBy(d, Turn(d))) = <<"fold">>)
         => /\ progressCompleted' = 1
            /\ foldEvents' = Append(foldEvents, "fold")
            /\ progressTotal' = 0
            /\ progressPercent' = 0]_vars

\* A fold has been counted in a run that has folded no start event.
C17_Witness ==
  /\ nruns = 1 /\ isRunning /\ progressTotal = 0 /\ progressCompleted = 1
  /\ foldEvents = <<"fold">>
  /\ statusMessage = <<"Model ", "random forest", " fold ", "1", "/", "1">>

\* C18: a turn of the read loop that folds one model_skipped event while
\* isRunning appends the event to foldEvents and changes nothing else of
\* the page state.
C18_SkippedOnlyLogged ==
  [][\A d \in Runs :
       (ReadStep(d) /\ isRunning /\ NamesIn(CutBy(d, Turn(d))) = <<"model_skipped">>) =>
         /\ foldEvents' = Append(foldEvents, "model_skipped")
         /\ UNCHANGED <<progressCompleted, progressTotal, currentModel, errorMessage,
                        results, isRunning, statusMessage>>]_vars

\* A model_skipped event was logged after a fold without being counted.
C18_Witness ==
  /\ isRunning
  /\ foldEvents = <<"fold", "model_skipped">>
  /\ progressCompleted = 1

C20_NoRetry ==
  [][\A d \in Runs :
       /\ (pc'[d] = "fetch" /\ pc[d] # "fetch") =>
            (pc[d] = "none" /\ nruns' = nruns + 1 /\ d = nruns')
       /\ pc[d] \in {"failed", "done"} => pc'[d] = pc[d]
       /\ nruns' # nruns =>
            Cardinality({e \in Runs : pc'[e] = "fetch" /\ pc[e] # "fetch"}) = 1]_vars

\* A run has failed while reading and no request is pending or open.
C20_Witness ==
  /\ nruns = 1 /\ pc[1] = "failed"
  /\ errorMessage = "network error" /\ ~isRunning

\* The only run has read and cut every frame of ScenarioA.
ScenarioFolded ==
  nruns = 1 /\ sent = Len(ScenarioA) /\ wire[1] = <<>> /\ buffer[1] = <<>>

\* C21: after start (2 models, 3 folds), model_start, three folds,
\* model_complete, model_start, model_skipped and complete have been folded,
\* results is set, errorMessage is absent, progressCompleted = 3,
\* progressTotal = 6 and progressPercent = 50.
C21_ScenarioA ==
  ScenarioFolded =>
    /\ results = "results" /\ errorMessage = NULL /\ ~isRunning
    /\ progressCompleted = 3 /\ progressTotal = 6 /\ progressPercent = 50

\* The nine events were folded, the skipped model is in the log and the page
\* shows success at one half.
C21_Witness ==
  /\ ScenarioFolded
  /\ foldEvents = <<"a_fold_1", "a_fold_2", "a_fold_3", "a_complete_rf", "a_skipped_xgb">>
  /\ currentModel = "xgboost"
  /\ results = "results" /\ progressPercent = 50

\* C22: a turn of the read loop that folds one start event in the state
\* onSubmit left sets progressTotal to total_folds times the number of models
\* of the event, leaves progressCompleted at 0 and isRunning set, and sets
\* statusMessage to "Initializing models...".
C22_StartSetsTotal ==
  [][\A d \in Runs : \A n \in {"start", "start0"} :
       (ReadStep(d) /\ State = ResetState /\ NamesIn(CutBy(d, Turn(d))) = <<n>>) =>
         /\ progressTotal' = EventOf[n].total_folds * Len(EventOf[n].models)
         /\ progressCompleted' = 0
         /\ isRunning'
         /\ statusMessage' = <<"Initializing models...">>]_vars

\* A start event with one model and one fold was folded first in its run.
C22_Witness ==
  /\ nruns = 1 /\ pc[1] = "read"
  /\ State = [ResetState EXCEPT !.statusMessage = <<"Initializing models...">>,
                                !.progressTotal = 1]
  /\ sent = 1 /\ wire[1] = <<>>

\* C23: within one run, once progressTotal has been set by a start event no
\* step changes it.
C23_TotalSetOnce ==
  [][(nruns' = nruns /\ progressTotal > 0) => progressTotal' = progressTotal]_vars

\* C24: progressPercent is min(100, round(100 * min(progressCompleted,
\* progressTotal) / progressTotal)), halves rounded up, when progressTotal > 0,
\* and 0 otherwise.
C24_PercentFormula ==
  progressPercent =
    IF progressTotal > 0
      THEN (LET m == IF progressCompleted < progressTotal THEN progressCompleted
                     ELSE progressTotal
                p == Round(100 * m, progressTotal)
            IN IF p < 100 THEN p ELSE 100)
      ELSE 0

\* The count of completed folds after the named events: a start sets it to 0,
\* a fold adds one.
RECURSIVE CountAfter(_, _)
CountAfter(n, names) ==
  IF names = <<>> THEN n
  ELSE CountAfter(IF JsonOf[Head(names)].type = "start" THEN 0
                  ELSE IF JsonOf[Head(names)].type = "fold" THEN n + 1
                  ELSE n,
                  Tail(names))

\* C25: a turn of the read loop that folds one fold event while isRunning adds
\* exactly 1 to progressCompleted, appends the event to foldEvents and leaves
\* progressTotal, currentModel, errorMessage and results unchanged; and within
\* a run progressCompleted is changed only by a turn of a read loop, to the
\* number of fold events folded since the last start event.
C25_FoldCountsOne ==
  [][/\ \A d \in Runs :
          ReadStep(d) =>
            \A names \in {NamesIn(CutBy(d, Turn(d)))} :
            /\ progressCompleted' = CountAfter(progressCompleted, names)
            /\ (isRunning /\ names = <<"fold">>) =>
                 /\ progressCompleted' = progressCompleted + 1
                 /\ foldEvents' = Append(foldEvents, "fold")
                 /\ UNCHANGED <<progressTotal, currentModel, errorMessage, results>>
     /\ (nruns' = nruns /\ \A d \in Runs : ~ReadStep(d)) =>
          progressCompleted' = progressCompleted]_vars

\* Two fold events have been counted after a start event.
C25_Witness ==
  /\ nruns = 1 /\ isRunning
  /\ progressTotal = 1 /\ progressCompleted = 2
  /\ foldEvents = <<"fold", "fold">>

\* C26: a turn of the read loop that folds one model_start event while
\* isRunning, with neither results nor errorMessage set, sets currentModel to
\* the event's model and the status to "Running ...", keeps isRunning, and
\* leaves progressCompleted, progressTotal and foldEvents unchanged.
C26_ModelStartSetsModel ==
  [][\A d \in Runs :
       (ReadStep(d) /\ isRunning /\ ~Terminal
          /\ NamesIn(CutBy(d, Turn(d))) = <<"model_start">>) =>
         /\ currentModel' = EventOf["model_start"].model
         /\ statusMessage' = <<"Running ", "random forest", "...">>
         /\ isRunning'
         /\ UNCHANGED <<progressCompleted, progressTotal, foldEvents, errorMessage,
                        results>>]_vars

\* A model_start was folded after a fold: the model is set, the count and the
\* log are as the fold left them.
C26_Witness ==
  /\ isRunning /\ currentModel = "random_forest"
  /\ statusMessage = <<"Running ", "random forest", "...">>
  /\ progressCompleted = 1 /\ foldEvents = <<"fold">>

\* C27: a turn of the read loop that folds one complete event while isRunning,
\* with no errorMessage, sets results to the event's results, clears
\* isRunning, leaves errorMessage absent and leaves progressCompleted,
\* progressTotal and foldEvents unchanged.
C27_CompleteSucceeds ==
  [][\A d \in Runs :
       (ReadStep(d) /\ isRunning /\ errorMessage = NULL
          /\ NamesIn(CutBy(d, Turn(d))) = <<"complete">>) =>
         /\ results' = EventOf["complete"].results
         /\ ~isRunning'
         /\ errorMessage' = NULL
         /\ UNCHANGED <<progressCompleted, progressTotal, foldEvents>>]_vars

\* A complete event was folded after a start and a fold.
C27_Witness ==
  /\ nruns = 1 /\ ~isRunning /\ results = "results" /\ errorMessage = NULL
  /\ statusMessage = <<"Training finished">>
  /\ progressTotal = 1 /\ progressCompleted = 1 /\ foldEvents = <<"fold">>

\* The events processEvent puts in foldEvents.
Logged(names) ==
  SelectSeq(names, LAMBDA n : JsonOf[n].type \in {"model_skipped", "fold", "model_complete"})

\* C28 as stated: a turn of the read loop that folds one TrainingEvent of any
\* type, with neither results nor errorMessage set, appends it to foldEvents.
C28_EveryEventLogged ==
  [][\A d \in Runs : \A n \in EventNames :
       (ReadStep(d) /\ ~Terminal /\ NamesIn(CutBy(d, Turn(d))) = <<n>>) =>
         foldEvents' = Append(foldEvents, n)]_vars

\* C28 amended: within a run foldEvents only grows at its end: a turn of the
\* read loop appends, in arrival order, the model_skipped, fold and
\* model_complete events it folds and no other event, and no other step of
\* the run changes foldEvents.
C28_AppendOnlyFoldLog ==
  [][/\ \A d \in Runs :
          ReadStep(d) => foldEvents' = foldEvents \o Logged(NamesIn(CutBy(d, Turn(d))))
     /\ (nruns' = nruns /\ \A d \in Runs : ~ReadStep(d)) => foldEvents' = foldEvents]_vars

\* A start, a fold and a model_complete were folded: the log holds the last
\* two, in that order.
C28_Witness ==
  /\ nruns = 1 /\ progressTotal = 1
  /\ foldEvents = <<"fold", "model_complete">>
  /\ statusMessage = <<"random forest", " complete">>

\* C29: the text a driver has read is the text it has cut followed by its
\* buffer: the buffer holds no boundary, the text cut is empty or ends with a
\* boundary, and the records cut are, in order, the segments of the text cut
\* (trimmed), one for each boundary.
C29_BufferIsTail ==
  \A d \in Runs :
    LET text == received[d]
        kept == Len(buffer[d])
        cut == SubSeq(text, 1, Len(text) - kept)
    IN /\ kept <= Len(text)
       /\ SubSeq(text, Len(text) - kept + 1, Len(text)) = buffer[d]
       /\ indexOfBoundary(buffer[d]) = 0
       /\ cut # <<>> => (Len(cut) >= 2 /\ cut[Len(cut)] = NL /\ cut[Len(cut) - 1] = NL)
       /\ emitted[d] = feed(cut, <<>>).records
       /\ feed(cut, <<>>).buffer = <<>>

\* A record was cut and the start of the next one is kept in the buffer,
\* the text having come in more than one chunk.
C29_Witness ==
  \E d \in Runs :
    /\ emitted[d] = << <<DATA, "fold">> >>
    /\ buffer[d] = <<DATA>>
    /\ Cardinality(cuts[d]) >= 2

\* C30: a run is submitted (a request issued, the page state reset) only in
\* a state where isRunning is false.
C30_SubmitOnlyWhenIdle ==
  [][(nruns' # nruns \/ \E d \in Runs : (pc[d] = "none" /\ pc'[d] # "none")) => ~isRunning]_vars

\* A run is in progress with a submission still allowed by the bound.
C30_Witness ==
  /\ isRunning /\ nruns = 1 /\ nruns < MaxRuns
  /\ pc[1] = "read" /\ progressCompleted = 1

\* C31: isRunning is true in every state in which a driver has sent its
\* request and has not yet left its read loop.
C31_RunningCoversDriver ==
  \A d \in Runs : pc[d] \in {"fetch", "read"} => isRunning

\* Run d's read rejects in this step.
FailStep(d) == pc[d] = "read" /\ pc'[d] = "failed"

\* C33: when the read of a driver rejects after events were folded,
\* errorMessage becomes the message of the rejection ("Training failed" when
\* it has none), isRunning and statusMessage are cleared, and
\* progressCompleted, progressTotal, currentModel, foldEvents and results keep
\* their values.
C33_ReadFailureKeepsProgress ==
  [][\A d \in Runs :
       FailStep(d) =>
         /\ errorMessage' \in {"network error", "Training failed"}
         /\ ~isRunning'
         /\ statusMessage' = <<>>
         /\ UNCHANGED <<progressCompleted, progressTotal, currentModel, foldEvents,
                        results>>]_vars

\* A read rejected with no message after a start, a model_start and a fold
\* were folded: the default text is shown and what was folded is kept.
C33_Witness ==
  /\ nruns = 1 /\ pc[1] = "failed"
  /\ errorMessage = "Training failed" /\ ~isRunning /\ statusMessage = <<>>
  /\ progressTotal = 1 /\ progressCompleted = 1
  /\ currentModel = "random_forest" /\ foldEvents = <<"fold">>
  /\ results = NULL

\* C32: under fair scheduling every submitted run whose request fails, whose
\* stream ends or whose read fails comes to a state in which its driver has
\* left and isRunning is false; and isRunning never stays true for ever.
C32_RunEventuallyIdle ==
  /\ \A d \in Runs : (pc[d] = "fetch") ~> (pc[d] \in {"done", "failed"} /\ ~isRunning)
  /\ isRunning ~> ~isRunning

\* The stream of a run ended with no complete and no error event: the driver
\* has left its loop and isRunning is false.
C32_Witness ==
  /\ nruns = 1 /\ pc[1] = "done" /\ ~isRunning
  /\ results = NULL /\ errorMessage = NULL
  /\ progressCompleted = 1
  /\ statusMessage = <<"Model ", "random forest", " fold ", "1", "/", "1", " (idle)">>

\* C34: the step in which a driver leaves its read loop at the end of its
\* stream parses and folds nothing, whatever its buffer holds: the buffer,
\* errorMessage, results, the progress, currentModel and foldEvents are as
\* before; and a driver that has left stays so, with its buffer as it was.
C34_TailNeverParsed ==
  [][\A d \in Runs :
       /\ DoneStep(d) =>
            /\ buffer'[d] = buffer[d]
            /\ UNCHANGED <<errorMessage, results, progressCompleted, progressTotal,
                           currentModel, foldEvents>>
       /\ pc[d] = "done" => (pc'[d] = "done" /\ buffer'[d] = buffer[d])]_vars

\* The stream ended after a fold event and a complete record with no blank
\* line: the record is still in the buffer and the run has neither results
\* nor an error.
C34_Witness ==
  /\ nruns = 1 /\ pc[1] = "done" /\ ~isRunning
  /\ buffer[1] \in {<<DATA, "complete">>, <<DATA, "complete", NL>>}
  /\ results = NULL /\ errorMessage = NULL
  /\ progressCompleted = 1

\* C35: while the instrument token is empty a submission does nothing: no
\* run is added and no request is sent, isRunning stays false if it was, and
\* with no driver of an earlier run still at work no field of the page
\* changes.
C35_EmptyTokenNoOp ==
  [][(instrumentToken = "" /\ instrumentToken' = "") =>
       /\ nruns' = nruns
       /\ \A d \in Runs : pc[d] = "none" => pc'[d] = "none"
       /\ ~isRunning => ~isRunning'
       /\ (\A d \in Runs : pc[d] \notin {"fetch", "read"}) => UNCHANGED page]_vars

\* The token was emptied after a run that ended with results: the submit
\* button is enabled and a submission finds no token.
C35_Witness ==
  /\ instrumentToken = "" /\ SubmitEnabled
  /\ nruns = 1 /\ pc[1] = "done"
  /\ results = "results" /\ progressCompleted = 1

\* The number of records in a text: the boundaries found from left to right,
\* each search starting after the boundary before.
RECURSIVE BoundaryCount(_, _)
BoundaryCount(text, from) ==
  IF from >= Len(text) THEN 0
  ELSE IF text[from] = NL /\ text[from + 1] = NL
    THEN 1 + BoundaryCount(text, from + 2)
    ELSE BoundaryCount(text, from + 1)

\* C36: whenever a driver is about to read its next chunk, its buffer holds
\* no two consecutive line terminators, and it has emitted as many records
\* as there are boundaries in the text it has read.
C36_NoBoundaryKept ==
  \A d \in Runs :
    pc[d] = "read" =>
      /\ \A i \in 1..(Len(buffer[d]) - 1) : ~(buffer[d][i] = NL /\ buffer[d][i + 1] = NL)
      /\ Len(emitted[d]) = BoundaryCount(received[d], 1)

\* A chunk with two boundaries was read: both records are emitted, and the
\* line terminator that follows is kept.
C36_Witness ==
  \E d \in Runs :
    /\ pc[d] = "read"
    /\ received[d] = <<NL, NL, NL, NL, NL>>
    /\ cuts[d] = {5}
    /\ Len(emitted[d]) = 2
    /\ buffer[d] = <<NL>>

=============================================================================
